---- MODULE Spec2Model ----
(***************************************************************************)
(* Weight-check form (src/src/App.js, four versions of the form component *)
(* in one file) and the spreadsheet endpoint                              *)
(* (src/weight-check-backend/index.js).                                   *)
(*                                                                         *)
(* Three state machines share this module:                                *)
(*   Spec        the endpoint POST /api/weight-check and the file it      *)
(*               rewrites, with its requests interleaved at their awaits;  *)
(*   FormSpec    the form component: edits, submit, the answer of fetch;   *)
(*   EngineSpec  the component's pure functions calculateStats,            *)
(*               isWeightInRange and getWeightColor, called on inputs.     *)
(***************************************************************************)
EXTENDS Integers, Sequences, FiniteSets, TLC

VARIABLES
    file,          \* what is stored at EXCEL_FILE
    initialFile,   \* what was stored there before the first request (history)
    req,           \* one record per request of the endpoint
    version,       \* which of the four versions of the form component runs
    urlConfigured, \* GOOGLE_SHEET_URL is set in the environment
    heap,          \* the spout objects: those of INITIAL_FORM_STATE and the form's own
    formData,      \* the state formData; spoutData holds references into heap
    loading,       \* the state loading
    submitStatus,  \* the state submitStatus
    fetch,         \* per call of handleSubmit, the request it awaits, if any
    edits,         \* number of edits made so far
    submits,       \* number of submits made so far
    lastOutcome,   \* how the call of handleSubmit that ended last ended (history)
    callSamples,   \* the samples a call of calculateStats is given
    callWeight,    \* the weight a call of isWeightInRange / getWeightColor is given
    statsResult,   \* what calculateStats returned, once it was called
    inRangeResult, \* what isWeightInRange returned, once it was called
    colorResult    \* what getWeightColor returned, once it was called

storeVars == <<file, initialFile, req>>

formVars ==
    <<version, urlConfigured, heap, formData, loading, submitStatus, fetch,
      edits, submits, lastOutcome>>

engineVars ==
    <<callSamples, callWeight, statsResult, inRangeResult, colorResult>>

vars ==
    <<file, initialFile, req, version, urlConfigured, heap, formData, loading,
      submitStatus, fetch, edits, submits, lastOutcome, callSamples,
      callWeight, statsResult, inRangeResult, colorResult>>

(***************************************************************************)
(* Bounds of the model                                                     *)
(***************************************************************************)
\* number of requests the endpoint receives in one behaviour
MaxRequests == 2

\* number of edits of the form in one behaviour
MaxEdits == 2

\* number of submits of the form in one behaviour
MaxSubmits == 2

Requests == 1..MaxRequests

(***************************************************************************)
(* The endpoint: data                                                      *)
(***************************************************************************)
\* Array(8) of the form, the number of groups a request of the form carries
NUM_SPOUTS == 8

\* sheet.columns: header and key of each column, in the sheet's column order
Columns ==
    << [header |-> "Date",     key |-> "date"],
       [header |-> "Time",     key |-> "time"],
       [header |-> "Operator", key |-> "operatorName"],
       [header |-> "Shift",    key |-> "shift"],
       [header |-> "Spout",    key |-> "spout"],
       [header |-> "Sample 1", key |-> "sample1"],
       [header |-> "Sample 2", key |-> "sample2"],
       [header |-> "Sample 3", key |-> "sample3"],
       [header |-> "Average",  key |-> "average"],
       [header |-> "Comments", key |-> "comments"] >>

\* the header row that assigning sheet.columns writes as row 1
HeaderRow == [i \in 1..Len(Columns) |-> Columns[i].header]

\* the column keys that assigning sheet.columns defines
ColumnKeys == [i \in 1..Len(Columns) |-> Columns[i].key]

\* the template literal `Spout ${index + 1}`, index counted from 0
SpoutLabels ==
    << "Spout 1", "Spout 2", "Spout 3", "Spout 4",
       "Spout 5", "Spout 6", "Spout 7", "Spout 8", "Spout 9" >>

SpoutLabel(index) == SpoutLabels[index + 1]

\* The file at EXCEL_FILE.  kind: "absent" (no file), "partial" (a file that
\* does not read as a workbook: truncated, half written, or mixed by two
\* writers), "book" (a workbook).  hasSheet: the workbook has a worksheet
\* named 'Weight Checks'; rows: that worksheet's rows, the header row first.
Absent == [kind |-> "absent", hasSheet |-> FALSE, rows |-> << >>]

Partial == [kind |-> "partial", hasSheet |-> FALSE, rows |-> << >>]

Book(rows) == [kind |-> "book", hasSheet |-> TRUE, rows |-> rows]

BookWithoutSheet == [kind |-> "book", hasSheet |-> FALSE, rows |-> << >>]

\* a data row written by an earlier run of the endpoint
OldRow ==
    << "2024-01-01", "06:00", "Old", "Night", "Spout 1",
       "50.0", "50.0", "50.0", "50.0", "" >>

\* the header of a workbook somebody else made at the same path
ForeignHeader == << "Datum", "Gewicht" >>

ForeignRow == << "2024-01-01", "50.0" >>

\* what the path can hold when the first request arrives
InitialFiles ==
    { Absent, Partial, BookWithoutSheet,
      Book(<< HeaderRow, OldRow >>),
      Book(<< ForeignHeader, ForeignRow >>) }

\* one element of req.body.spoutData
Group(s1, s2, s3, avg, sd, c) ==
    [samples |-> << s1, s2, s3 >>, average |-> avg, stdDev |-> sd,
     comments |-> c]

GroupsOf(s1) ==
    [k \in 1..NUM_SPOUTS |->
        IF k = 1 THEN Group(s1, "49.9", "", "50.0", "0.1", "ok")
                 ELSE Group("", "", "", "0", "0", "")]

\* A request body.  groupsKey is the key the groups travel under: the endpoint
\* reads req.body.spoutData, the form's formatDataForSheet sends `spouts`.
MkBody(op, shift, key, s1) ==
    [date |-> "2024-05-01", time |-> "08:00", operatorName |-> op,
     shift |-> shift, groupsKey |-> key, groups |-> GroupsOf(s1)]

Bodies ==
    { MkBody("Ann", "Morning", "spoutData", "50.1"),
      MkBody("", "Night", "spoutData", "49.4"),
      MkBody("Ann", "Morning", "spouts", "50.1") }

NoBody ==
    [date |-> "", time |-> "", operatorName |-> "", shift |-> "",
     groupsKey |-> "", groups |-> << >>]

\* the groups are taken from whichever key carries them
HasGroups(body) == body.groups # << >>

\* req.body.spoutData is an array
HasSpoutData(body) == body.groupsKey = "spoutData"

(***************************************************************************)
(* The endpoint: the workbook in memory                                    *)
(***************************************************************************)
\* A worksheet in memory.  exists: getWorksheet / addWorksheet returned one;
\* keys: the column keys defined on it; rows: its rows, a row being the
\* sequence of its cells and << >> a row without cells.
NoSheet == [exists |-> FALSE, keys |-> << >>, rows |-> << >>]

\* workbook.getWorksheet('Weight Checks') after readFile.  Column keys are a
\* convenience of the workbook in memory and are not stored in the file, so
\* a worksheet that was read has none.
getWorksheet(f) ==
    IF f.hasSheet
    THEN [exists |-> TRUE, keys |-> << >>, rows |-> f.rows]
    ELSE NoSheet

\* workbook.addWorksheet then sheet.columns = [...]: the keys are defined
\* and the headers become row 1
addWorksheet ==
    [exists |-> TRUE, keys |-> ColumnKeys, rows |-> << HeaderRow >>]

\* the object handed to sheet.addRow for the group at position index (from 0)
RowObject(body, index) ==
    LET spout == body.groups[index + 1]
    IN  [date |-> body.date,
         time |-> body.time,
         operatorName |-> body.operatorName,
         shift |-> body.shift,
         spout |-> SpoutLabel(index),
         sample1 |-> spout.samples[1],
         sample2 |-> spout.samples[2],
         sample3 |-> spout.samples[3],
         average |-> spout.average,
         comments |-> spout.comments]

\* sheet.addRow(object): a new row after the last one; a cell is set for each
\* column key of the sheet, from the object's property of that name
addRow(sheet, obj) ==
    [sheet EXCEPT !.rows =
        Append(@, [i \in 1..Len(sheet.keys) |-> obj[sheet.keys[i]]])]

RECURSIVE addRowsFrom(_, _, _)
\* req.body.spoutData.forEach((spout, index) => sheet.addRow({...}))
addRowsFrom(sheet, body, index) ==
    IF index >= Len(body.groups)
    THEN sheet
    ELSE addRowsFrom(addRow(sheet, RowObject(body, index)), body, index + 1)

addRows(sheet, body) == addRowsFrom(sheet, body, 0)

\* what writeFile stores of a worksheet: the rows that have a cell
WrittenRows(sheet) == SelectSeq(sheet.rows, LAMBDA row : row # << >>)

(***************************************************************************)
(* The endpoint: requests                                                  *)
(***************************************************************************)
\* pc: "idle" not received yet; "read" awaiting readFile; "open" writeFile
\* called, the file not opened yet; "stream" the file opened (and emptied),
\* the workbook being written; "written" the stream has ended well, the
\* handler has not run on yet; "failed" the stream has failed, the handler
\* has not run on yet; "done" answered; "crashed" the process died before
\* the answer.
\* before: the file when the request arrived; seen: what readFile has read
\* from the path, << >> before it has read, else the file it read, in a
\* sequence of one; readOutcome: how readFile ended; sheet: the worksheet after the forEach; writes: calls of writeFile;
\* writeEnd: how writeFile ended, "refused" the file could not be opened,
\* "well", "failed" the stream failed;
\* overlapped: the requests that had the file open for writing while this
\* one had; concurrent: another request was in flight meanwhile (history);
\* resp: the answer sent.
IdleRequest ==
    [pc |-> "idle", body |-> NoBody, before |-> Absent, seen |-> << >>,
     readOutcome |-> "none", sheet |-> NoSheet, writes |-> 0,
     writeEnd |-> "none", overlapped |-> {}, concurrent |-> FALSE,
     resp |-> "none"]

\* the request is received and not answered
InFlight(r) == req[r].pc \in {"read", "open", "stream", "written", "failed"}

\* the request has the file open and writes its workbook into it
Streaming(r) == req[r].pc = "stream"

\* the stream of the request has ended well
WroteWell(r) == req[r].writeEnd = "well"

StoreInit ==
    /\ file \in InitialFiles
    /\ initialFile = file
    /\ req = [r \in Requests |-> IdleRequest]

\* app.post handler up to its first await: new Workbook, readFile started.
\* Requests are numbered in the order they arrive.
Post(r, body) ==
    /\ req[r].pc = "idle"
    /\ \A q \in Requests : q < r => req[q].pc # "idle"
    /\ req' = [q \in Requests |->
                 IF q = r
                 THEN [req[q] EXCEPT
                         !.pc = "read",
                         !.body = body,
                         !.before = file,
                         !.concurrent = \E o \in Requests : InFlight(o)]
                 ELSE IF InFlight(q)
                 THEN [req[q] EXCEPT !.concurrent = TRUE]
                 ELSE req[q]]
    /\ UNCHANGED <<file, initialFile>>
    /\ UNCHANGED <<formVars, engineVars>>

\* readFile reads the path: what it finds there at that moment is what it
\* settles on later, whatever another request does to the file in between
ReadBytes(r) ==
    /\ req[r].pc = "read"
    /\ req[r].seen = << >>
    /\ req' = [req EXCEPT ![r].seen = << file >>]
    /\ UNCHANGED <<file, initialFile>>
    /\ UNCHANGED <<formVars, engineVars>>

\* how readFile ends on the file f it has read: it resolves on a workbook
\* unless an I/O error occurs, and rejects otherwise
ReadOutcomes(f) ==
    CASE f.kind = "absent"  -> {"enoent"}
      [] f.kind = "partial" -> {"corrupt", "ioerror"}
      [] OTHER              -> {"loaded", "ioerror"}

\* the worksheet after the inner try/catch, f the file that was read
SheetAfterRead(f, outcome) ==
    IF outcome = "loaded" THEN getWorksheet(f) ELSE addWorksheet

\* readFile settles; the handler runs on, without another await, through the
\* inner catch, the forEach and the call of writeFile.  The forEach throws a
\* TypeError when req.body.spoutData or sheet is undefined; the outer catch
\* answers 500.
ReadFile(r) ==
    /\ req[r].pc = "read"
    /\ req[r].seen # << >>
    /\ \E outcome \in ReadOutcomes(req[r].seen[1]) :
         LET sheet == SheetAfterRead(req[r].seen[1], outcome)
             throws == ~HasSpoutData(req[r].body) \/ ~sheet.exists
         IN  req' = [req EXCEPT
                       ![r].readOutcome = outcome,
                       ![r].sheet = IF throws THEN sheet
                                    ELSE addRows(sheet, req[r].body),
                       ![r].writes = IF throws THEN 0 ELSE 1,
                       ![r].pc = IF throws THEN "done" ELSE "open",
                       ![r].resp = IF throws THEN "500" ELSE "none"]
    /\ UNCHANGED <<file, initialFile>>
    /\ UNCHANGED <<formVars, engineVars>>

\* writeFile opens EXCEL_FILE for writing, which empties it, or fails to
\* open it and rejects, leaving the file as it was; the outer catch answers
\* 500
WriteOpen(r) ==
    /\ req[r].pc = "open"
    /\ \E opened \in BOOLEAN :
         IF opened
         THEN /\ file' = Partial
              /\ req' = [q \in Requests |->
                           IF q = r
                           THEN [req[q] EXCEPT
                                   !.pc = "stream",
                                   !.overlapped = {o \in Requests : Streaming(o)}]
                           ELSE IF Streaming(q)
                           THEN [req[q] EXCEPT !.overlapped = @ \cup {r}]
                           ELSE req[q]]
         ELSE /\ file' = file
              /\ req' = [req EXCEPT ![r].pc = "done",
                                    ![r].writeEnd = "refused",
                                    ![r].resp = "500"]
    /\ UNCHANGED initialFile
    /\ UNCHANGED <<formVars, engineVars>>

\* What the path holds when the stream of r ends well.  Each writer has its
\* own descriptor and writes from position 0, and the byte written last at a
\* position stays.  Alone, r leaves its workbook.  When others had the file
\* open meanwhile, the file is the workbook of r, or the workbook of such a
\* writer whose stream has ended well too (its bytes came after those of r),
\* or a mix of the writes that is no workbook.
FileAfterWrite(r) ==
    IF req[r].overlapped = {}
    THEN {Book(WrittenRows(req[r].sheet))}
    ELSE {Partial, Book(WrittenRows(req[r].sheet))}
         \cup {Book(WrittenRows(req[o].sheet)) :
                  o \in {q \in req[r].overlapped : WroteWell(q)}}

\* A write of the stream of r, not its last, reaches the file: the bytes lie
\* over what the file held, and the file is no workbook until a stream has
\* ended well
WriteChunk(r) ==
    /\ req[r].pc = "stream"
    /\ file' = Partial
    /\ UNCHANGED <<req, initialFile>>
    /\ UNCHANGED <<formVars, engineVars>>

\* The stream of writeFile ends.  It ends well: the bytes of the workbook
\* are in the file.  Or it fails (disk full, I/O error): at its first write,
\* and the file is as it was, or half way, and what it has written lies over
\* what the file held, which is no workbook.  The promise of writeFile
\* settles and the handler runs on in a later step.
WriteEnd(r) ==
    /\ req[r].pc = "stream"
    /\ \E written \in BOOLEAN :
         IF written
         THEN /\ file' \in FileAfterWrite(r)
              /\ req' = [req EXCEPT ![r].pc = "written", ![r].writeEnd = "well"]
         ELSE /\ file' \in {file, Partial}
              /\ req' = [req EXCEPT ![r].pc = "failed", ![r].writeEnd = "failed"]
    /\ UNCHANGED initialFile
    /\ UNCHANGED <<formVars, engineVars>>

\* the handler answers {success: true} whatever the end of writeFile: the
\* rejection is lost
RespondSuccess(r) ==
    /\ req[r].pc \in {"written", "failed"}
    /\ req' = [req EXCEPT ![r].pc = "done", ![r].resp = "ok"]
    /\ UNCHANGED <<file, initialFile>>
    /\ UNCHANGED <<formVars, engineVars>>

\* the handler runs on after `await writeFile`: res.json({success: true})
\* when the promise resolved, the outer catch and status 500 when it rejected
Respond(r) ==
    /\ req[r].pc \in {"written", "failed"}
    /\ req' = [req EXCEPT
                 ![r].pc = "done",
                 ![r].resp = IF req[r].pc = "written" THEN "ok" ELSE "500"]
    /\ UNCHANGED <<file, initialFile>>
    /\ UNCHANGED <<formVars, engineVars>>

\* the server process dies: the requests in flight are never answered and
\* the file stays as it is at that moment
Crash ==
    /\ \E r \in Requests : InFlight(r)
    /\ req' = [r \in Requests |->
                 IF InFlight(r) THEN [req[r] EXCEPT !.pc = "crashed"]
                 ELSE req[r]]
    /\ UNCHANGED <<file, initialFile>>
    /\ UNCHANGED <<formVars, engineVars>>

StoreNext ==
    \/ \E r \in Requests, body \in Bodies : Post(r, body)
    \/ \E r \in Requests : ReadBytes(r)
    \/ \E r \in Requests : ReadFile(r)
    \/ \E r \in Requests : WriteOpen(r)
    \/ \E r \in Requests : WriteChunk(r)
    \/ \E r \in Requests : WriteEnd(r)
    \/ \E r \in Requests : Respond(r)
    \/ Crash


(***************************************************************************)
(* The form: values                                                        *)
(***************************************************************************)
\* App.js holds four versions of the component, one after the other:
\*   1  App             lines 1-356     fetch, response.ok checked
\*   2  WeightCheckForm lines 357-773   validation, fetch, response.ok checked
\*   3  App             lines 774-1108  fetch in mode no-cors
\*   4  App             lines 1109-1431 URL check, fetch in mode no-cors
Versions == {1, 2, 3, 4}

\* samples per spout: ['', '', ''] and CONFIG.NUM_SAMPLES_PER_SPOUT
NUM_SAMPLES_PER_SPOUT == 3

\* Number(string), in hundredths, of the strings the model types into a
\* sample field; a string outside the table does not parse: Number is NaN
NumberTable ==
    ("" :> 0) @@ (" " :> 0) @@ ("49.4" :> 4940) @@ ("50.1" :> 5010) @@
    ("50" :> 5000) @@ ("50.5" :> 5050) @@ ("49.5" :> 4950) @@
    ("49.46" :> 4946) @@ ("50.6" :> 5060)

Number(s) ==
    IF s \in DOMAIN NumberTable
    THEN [nan |-> FALSE, v |-> NumberTable[s]]
    ELSE [nan |-> TRUE, v |-> 0]

\* A value of average / stdDev: a number or a string of digits, n / 10^d.
\* NaN and the string "NaN" have nan = TRUE.
RECURSIVE Normalize(_, _)
\* a number has one form: 49.80 is 49.8
Normalize(n, d) ==
    IF d > 0 /\ n % 10 = 0 THEN Normalize(n \div 10, d - 1) ELSE [n |-> n, d |-> d]

NumberValue(n, d) ==
    [t |-> "number", nan |-> FALSE, n |-> Normalize(n, d).n, d |-> Normalize(n, d).d]

StringValue(n, d) == [t |-> "string", nan |-> FALSE, n |-> n, d |-> d]

NaNValue == [t |-> "number", nan |-> TRUE, n |-> 0, d |-> 0]

NaNString == [t |-> "string", nan |-> TRUE, n |-> 0, d |-> 0]

Zero == NumberValue(0, 0)

RECURSIVE SumSeq(_)
\* reduce((a, b) => a + b, 0)
SumSeq(xs) == IF xs = << >> THEN 0 ELSE Head(xs) + SumSeq(Tail(xs))

\* num / den cut off after the integer part
TruncDiv(num, den) ==
    IF num >= 0 THEN num \div den ELSE 0 - ((0 - num) \div den)

\* toFixed rounds the double that the division gave, not the exact quotient.
\* Among the sums (hundredths) and divisors of the numbers of NumberTable,
\* taken up to three at a time, whose exact quotient is a decimal tie, these
\* are the ones whose double lies below the tie: (50.1 + 50) / 2 and
\* (49.5 + 50.6) / 2 are the double 50.049999999999997, (50.5 + 50.6) / 2 is
\* 50.549999999999997.  The other ties are exact doubles (49.75).
DoubleBelowTie == { << 10010, 20 >>, << 10110, 20 >> }

\* num / den rounded to the nearest integer as toFixed rounds the double of
\* the quotient: an exact tie goes away from zero, a double below the tie
\* goes down (den > 0)
RoundDiv(num, den) ==
    IF << num, den >> \in DoubleBelowTie THEN num \div den
    ELSE IF num >= 0 THEN (2 * num + den) \div (2 * den)
    ELSE 0 - ((2 * (0 - num) + den) \div (2 * den))

\* the integer nearest to sqrt(b / a), a tie going up: the m with
\* (m - 1/2)^2 <= b / a < (m + 1/2)^2, looked for in 0..upper
RoundedRoot(a, b, upper) ==
    CHOOSE m \in 0..upper :
        /\ (m = 0 \/ (2 * m - 1) * (2 * m - 1) * a <= 4 * b)
        /\ (2 * m + 1) * (2 * m + 1) * a > 4 * b

RECURSIVE MaxSeq(_)
MaxSeq(xs) ==
    IF Len(xs) = 1 THEN Head(xs)
    ELSE IF Head(xs) >= MaxSeq(Tail(xs)) THEN Head(xs) ELSE MaxSeq(Tail(xs))

RECURSIVE MinSeq(_)
MinSeq(xs) ==
    IF Len(xs) = 1 THEN Head(xs)
    ELSE IF Head(xs) <= MinSeq(Tail(xs)) THEN Head(xs) ELSE MinSeq(Tail(xs))

\* samples.filter(sample => sample !== '').map(Number)
FilteredSamples(samples) ==
    LET kept == SelectSeq(samples, LAMBDA s : s # "")
    IN  [i \in 1..Len(kept) |-> Number(kept[i])]

\* as StatsOf, the variance divided by n - 1 (NaN for one sample: 0 / 0)
StatsOfSampleVariance(xs, avgDigits, devDigits) ==
    LET n == Len(xs)
        s == SumSeq([i \in 1..n |-> xs[i].v])
        Q == SumSeq([i \in 1..n |-> (n * xs[i].v - s) * (n * xs[i].v - s)])
        avgUnit == IF avgDigits = 1 THEN 10 ELSE 1
        vs == [i \in 1..n |-> xs[i].v]
        spread == MaxSeq(vs) - MinSeq(vs)
    IN  IF n = 1 \/ \E i \in 1..n : xs[i].nan
        THEN [nan |-> TRUE, average |-> 0, stdDev |-> 0]
        ELSE [nan |-> FALSE,
              average |-> RoundDiv(s, avgUnit * n),
              stdDev |-> IF devDigits = 1
                         THEN RoundedRoot(100 * n * n * (n - 1), Q, spread \div 5 + 1)
                         ELSE RoundedRoot(n * n * (n - 1), 100 * Q, 20 * spread + 1)]

\* The numbers of calculateStats, exact: with n samples x (hundredths) of sum
\* s, average = s / n and variance = Q / n^3 where Q = sum of (n x - s)^2.
\* toFixed(k) of the average and of the square root, in units of 10^-k.  The
\* standard deviation is at most the spread of the samples.  A sample that is
\* NaN makes the sum, and with it every result, NaN.
StatsOf(xs, avgDigits, devDigits) ==
    LET n == Len(xs)
        s == SumSeq([i \in 1..n |-> xs[i].v])
        Q == SumSeq([i \in 1..n |-> (n * xs[i].v - s) * (n * xs[i].v - s)])
        avgUnit == IF avgDigits = 1 THEN 10 ELSE 1
        avg == RoundDiv(s, avgUnit * n)
        vs == [i \in 1..n |-> xs[i].v]
        spread == MaxSeq(vs) - MinSeq(vs)
        dev == IF devDigits = 1
               THEN RoundedRoot(100 * n * n * n, Q, spread \div 10 + 1)
               ELSE RoundedRoot(n * n * n, 100 * Q, 10 * spread + 1)
    IN  IF \E i \in 1..n : xs[i].nan
        THEN [nan |-> TRUE, average |-> 0, stdDev |-> 0]
        ELSE [nan |-> FALSE, average |-> avg, stdDev |-> dev]

\* calculateStats of version 1 (35-44): 0 and 0 without samples, else the
\* strings average.toFixed(1) and stdDev.toFixed(1)
calculateStats1(samples) ==
    LET xs == FilteredSamples(samples)
        st == StatsOf(xs, 1, 1)
    IN  IF Len(xs) = 0 THEN [average |-> Zero, stdDev |-> Zero]
        ELSE IF st.nan THEN [average |-> NaNString, stdDev |-> NaNString]
        ELSE [average |-> StringValue(st.average, 1),
              stdDev |-> StringValue(st.stdDev, 1)]

\* calculateStats of version 2 (394-410): the strings '0.0' without samples
calculateStats2(samples) ==
    LET xs == FilteredSamples(samples)
        st == StatsOf(xs, 1, 1)
    IN  IF Len(xs) = 0
        THEN [average |-> StringValue(0, 1), stdDev |-> StringValue(0, 1)]
        ELSE IF st.nan THEN [average |-> NaNString, stdDev |-> NaNString]
        ELSE [average |-> StringValue(st.average, 1),
              stdDev |-> StringValue(st.stdDev, 1)]

\* calculateStats of versions 3 and 4 (807-818, 1146-1157): the numbers
\* Number(average.toFixed(2)) and Number(Math.sqrt(variance).toFixed(3))
calculateStats3(samples) ==
    LET xs == FilteredSamples(samples)
        st == StatsOf(xs, 2, 3)
    IN  IF Len(xs) = 0 THEN [average |-> Zero, stdDev |-> Zero]
        ELSE IF st.nan THEN [average |-> NaNValue, stdDev |-> NaNValue]
        ELSE [average |-> NumberValue(st.average, 2),
              stdDev |-> NumberValue(st.stdDev, 3)]

\* as calculateStats, without the check for an empty list: 0 / 0
calculateStatsOfEmpty(ver, samples) ==
    IF FilteredSamples(samples) = << >>
    THEN [average |-> NaNValue, stdDev |-> NaNValue]
    ELSE CASE ver = 1 -> calculateStats1(samples)
           [] ver = 2 -> calculateStats2(samples)
           [] OTHER   -> calculateStats3(samples)

calculateStats(ver, samples) ==
    CASE ver = 1 -> calculateStats1(samples)
      [] ver = 2 -> calculateStats2(samples)
      [] OTHER   -> calculateStats3(samples)

(***************************************************************************)
(* The form: the tolerance window                                          *)
(***************************************************************************)
\* TARGET_WEIGHT = 50 and TOLERANCE = 0.5 (CONFIG.TARGET_WEIGHT and
\* CONFIG.WEIGHT_TOLERANCE in version 2), in hundredths as the samples are
TARGET_WEIGHT == 5000

TOLERANCE == 50

MIN_WEIGHT == TARGET_WEIGHT - TOLERANCE

MAX_WEIGHT == TARGET_WEIGHT + TOLERANCE

\* parseFloat(string): the number that the longest numeric prefix of the
\* string denotes, NaN when there is none.  Unlike Number, the empty and the
\* blank string give NaN and text after the digits is ignored.
ParseFloatPrefix == ("50.1kg" :> "50.1")

parseFloat(s) ==
    IF s \in DOMAIN ParseFloatPrefix THEN Number(ParseFloatPrefix[s])
    ELSE IF s \in {"", " "} THEN [nan |-> TRUE, v |-> 0]
    ELSE Number(s)

\* isWeightInRange of version 1 (46-48): the string is compared with the
\* numbers, which converts it as Number does; a comparison with NaN is false
isWeightInRange1(weight) ==
    /\ weight # ""
    /\ ~Number(weight).nan
    /\ Number(weight).v >= MIN_WEIGHT
    /\ Number(weight).v <= MAX_WEIGHT

\* isWeightInRange of version 2 (418-423)
isWeightInRange2(weight) ==
    /\ weight # ""
    /\ ~parseFloat(weight).nan
    /\ parseFloat(weight).v >= MIN_WEIGHT
    /\ parseFloat(weight).v <= MAX_WEIGHT

\* as isWeightInRange of versions 3 and 4, the bounds excluded
isWeightInRange3Exclusive(weight) ==
    LET numWeight == Number(weight)
    IN  /\ ~numWeight.nan
        /\ numWeight.v > MIN_WEIGHT
        /\ numWeight.v < MAX_WEIGHT

\* isWeightInRange of versions 3 and 4 (820-823, 1159-1162)
isWeightInRange3(weight) ==
    LET numWeight == Number(weight)
    IN  /\ ~numWeight.nan
        /\ numWeight.v >= MIN_WEIGHT
        /\ numWeight.v <= MAX_WEIGHT

isWeightInRange(ver, weight) ==
    CASE ver = 1 -> isWeightInRange1(weight)
      [] ver = 2 -> isWeightInRange2(weight)
      [] OTHER   -> isWeightInRange3(weight)

\* the class names getWeightColor returns for a weight in range
GreenClass(ver) ==
    CASE ver = 1 -> "border-green-500 focus:border-green-500 focus:ring-green-500"
      [] ver = 2 -> "border-green-500 text-green-700"
      [] OTHER   -> "bg-green-50"

\* the class names getWeightColor returns for a weight out of range
RedClass(ver) ==
    CASE ver = 1 -> "border-red-500 focus:border-red-500 focus:ring-red-500"
      [] ver = 2 -> "border-red-500 text-red-700"
      [] OTHER   -> "bg-red-50"

\* getWeightColor (50-55, 424-429, 825-828, 1164-1167): no class for the
\* empty string, else the class of isWeightInRange's answer
getWeightColor(ver, weight) ==
    IF weight = "" THEN ""
    ELSE IF isWeightInRange(ver, weight) THEN GreenClass(ver)
    ELSE RedClass(ver)

(***************************************************************************)
(* The form: state                                                         *)
(***************************************************************************)
\* INITIAL_SPOUT_DATA
INITIAL_SPOUT_DATA ==
    [samples |-> [j \in 1..NUM_SAMPLES_PER_SPOUT |-> ""],
     average |-> Zero, stdDev |-> Zero, comments |-> ""]

\* The spout objects are kept in heap.  Address i in 1..NUM_SPOUTS is the
\* object that Array(8).fill().map(() => ({...INITIAL_SPOUT_DATA})) made for
\* INITIAL_FORM_STATE.spoutData[i - 1]; address NUM_SPOUTS + i is the object a
\* handler has made for the same position of formData.spoutData.
Addresses == 1..(2 * NUM_SPOUTS)

InitialRef(i) == i

OwnRef(i) == NUM_SPOUTS + i

\* INITIAL_FORM_STATE: version 2 fills date and time from the clock at load
INITIAL_FORM_STATE(ver) ==
    [operatorName |-> "",
     shift |-> "",
     date |-> IF ver = 2 THEN "2024-05-01" ELSE "",
     time |-> IF ver = 2 THEN "08:00" ELSE "",
     spoutData |-> [i \in 1..NUM_SPOUTS |-> InitialRef(i)],
     generalComments |-> ""]

\* formData with the spout objects of INITIAL_FORM_STATE in place of its own
FormValueOfTemplate(data, hp) ==
    [data EXCEPT !.spoutData = [i \in 1..NUM_SPOUTS |-> hp[InitialRef(i)]]]

\* formData with the spout objects in place of their addresses
FormValue(data, hp) ==
    [data EXCEPT !.spoutData = [i \in 1..NUM_SPOUTS |-> hp[data.spoutData[i]]]]

\* String.prototype.trim on the strings the model types
Trim(s) == IF s = " " THEN "" ELSE s

\* useState({ success: false, message: '' }); version 2 starts with null
BlankStatus(ver) ==
    [success |-> IF ver = 2 THEN "null" ELSE "false", message |-> ""]

\* A call of handleSubmit that awaits nothing.  state: "none"; "pending" the
\* call awaits fetch; "json" (version 2) the response has come and the call
\* awaits response.json().  body: the body handed to fetch.
NoFetch == [state |-> "none", body |-> << >>]

\* the calls of handleSubmit, numbered in the order they are made
Submits == 1..MaxSubmits

\* no call of handleSubmit awaits anything
NoFetches == [k \in Submits |-> NoFetch]

\* the call k of handleSubmit is at one of its awaits
Awaiting(k) == fetch[k].state \in {"pending", "json"}

\* new Date().toISOString() at the time of formatting
Timestamp == "2024-05-01T08:00:00.000Z"

\* formatDataForSheet of version 1 (101-117)
formatDataForSheet1(data) ==
    [operatorName |-> data.operatorName,
     shift |-> data.shift,
     date |-> data.date,
     time |-> data.time,
     generalComments |-> data.generalComments,
     spouts |-> [i \in 1..Len(data.spoutData) |->
        [spoutNumber |-> i,
         samples |-> data.spoutData[i].samples,
         average |-> data.spoutData[i].average,
         stdDev |-> data.spoutData[i].stdDev,
         comments |-> data.spoutData[i].comments]]]

\* formatDataForSubmission of version 2 (477-492)
formatDataForSubmission(data) ==
    [metadata |->
        [operatorName |-> data.operatorName,
         shift |-> data.shift,
         date |-> data.date,
         time |-> data.time,
         generalComments |-> data.generalComments],
     spouts |-> [i \in 1..Len(data.spoutData) |->
        [spoutNumber |-> i,
         samples |-> data.spoutData[i].samples,
         average |-> data.spoutData[i].average,
         stdDev |-> data.spoutData[i].stdDev,
         comments |-> data.spoutData[i].comments]]]

\* formatDataForSheet of version 3 (864-884): one object per spout
formatDataForSheet3(data) ==
    [i \in 1..Len(data.spoutData) |->
        [timestamp |-> Timestamp,
         operatorName |-> data.operatorName,
         shift |-> data.shift,
         date |-> data.date,
         time |-> data.time,
         spoutNumber |-> i,
         sample1 |-> data.spoutData[i].samples[1],
         sample2 |-> data.spoutData[i].samples[2],
         sample3 |-> data.spoutData[i].samples[3],
         average |-> data.spoutData[i].average,
         stdDev |-> data.spoutData[i].stdDev,
         spoutComments |-> data.spoutData[i].comments,
         generalComments |-> data.generalComments]]

\* formatDataForSheet of version 4 (1203-1223): one array per spout
formatDataForSheet4(data) ==
    [i \in 1..Len(data.spoutData) |->
        << Timestamp, data.operatorName, data.shift, data.date, data.time, i,
           data.spoutData[i].samples[1], data.spoutData[i].samples[2],
           data.spoutData[i].samples[3], data.spoutData[i].average,
           data.spoutData[i].stdDev, data.spoutData[i].comments,
           data.generalComments >>]

\* the body handed to fetch: JSON.stringify of the formatted data
RequestBody(ver, data) ==
    CASE ver = 1 -> formatDataForSheet1(data)
      [] ver = 2 -> formatDataForSubmission(data)
      [] ver = 3 -> formatDataForSheet3(data)
      [] OTHER   -> [data |-> formatDataForSheet4(data)]

\* the operator name a request body carries
BodyOperatorName(ver, body) ==
    CASE ver = 1 -> body.operatorName
      [] ver = 2 -> body.metadata.operatorName
      [] ver = 3 -> body[1].operatorName
      [] OTHER   -> body.data[1][2]

FormInit ==
    /\ version \in Versions
    /\ urlConfigured \in (IF version = 4 THEN BOOLEAN ELSE {TRUE})
    /\ heap = [a \in Addresses |-> INITIAL_SPOUT_DATA]
    /\ formData = INITIAL_FORM_STATE(version)
    /\ loading = FALSE
    /\ submitStatus = BlankStatus(version)
    /\ fetch = NoFetches
    /\ edits = 0
    /\ submits = 0
    /\ lastOutcome = "none"

(***************************************************************************)
(* The form: handlers                                                      *)
(***************************************************************************)
\* what the model types: positions (counted from 0, as in the code) and values
SpoutInputs == {0, NUM_SPOUTS - 1}

SampleIndexInputs == {0, NUM_SAMPLES_PER_SPOUT - 1}

SampleInputs == {"", "49.4", "50.1"}

CommentInputs == {"leak"}

FieldInputs ==
    { << "operatorName", "Ann" >>, << "operatorName", " " >>,
      << "shift", "Morning" >>, << "generalComments", "note" >> }

\* the sample replaced, average and stdDev from the samples as they were
\* before the replacement
updateSampleStatsBefore(ver, spout, sampleIndex, value) ==
    [spout EXCEPT !.samples[sampleIndex + 1] = value,
                  !.average = calculateStats(ver, spout.samples).average,
                  !.stdDev = calculateStats(ver, spout.samples).stdDev]

\* the new object made from INITIAL_SPOUT_DATA instead of the spout found:
\* the samples are kept, the comment is not
updateSampleFromTemplate(ver, spout, sampleIndex, value) ==
    LET samples == [spout.samples EXCEPT ![sampleIndex + 1] = value]
    IN  [samples |-> samples,
         average |-> calculateStats(ver, samples).average,
         stdDev |-> calculateStats(ver, samples).stdDev,
         comments |-> ""]

\* the sample replaced, average and stdDev left as they were
updateSampleKeepingStats(ver, spout, sampleIndex, value) ==
    [spout EXCEPT !.samples[sampleIndex + 1] = value]

\* the spout object handleWeightChange makes from the one it finds: the
\* sample replaced, average and stdDev from calculateStats
updateSample(ver, spout, sampleIndex, value) ==
    LET samples == [spout.samples EXCEPT ![sampleIndex + 1] = value]
        stats == calculateStats(ver, samples)
    IN  [spout EXCEPT !.samples = samples,
                      !.average = stats.average,
                      !.stdDev = stats.stdDev]

\* handleWeightChange (57-76, 444-463, 830-845, 1169-1184): a new array, a
\* new object at spoutIndex
HandleWeightChange(spoutIndex, sampleIndex, value) ==
    /\ edits < MaxEdits
    /\ LET old == heap[formData.spoutData[spoutIndex + 1]]
           new == OwnRef(spoutIndex + 1)
       IN  /\ heap' = [heap EXCEPT ![new] =
                          updateSample(version, old, sampleIndex, value)]
           /\ formData' = [formData EXCEPT !.spoutData[spoutIndex + 1] = new]
    /\ edits' = edits + 1
    /\ UNCHANGED <<version, urlConfigured, loading, submitStatus, fetch,
                   submits, lastOutcome>>
    /\ UNCHANGED <<storeVars, engineVars>>

\* handleSpoutDataChange(spoutIndex, 'comments', value) of versions 1, 3, 4
\* (78-91, 847-854, 1186-1193): a new object with the field replaced
handleSpoutDataChange(spoutIndex, field, value) ==
    LET old == heap[formData.spoutData[spoutIndex + 1]]
        new == OwnRef(spoutIndex + 1)
    IN  /\ heap' = [heap EXCEPT ![new] = [old EXCEPT ![field] = value]]
        /\ formData' = [formData EXCEPT !.spoutData[spoutIndex + 1] = new]

\* handleSpoutCommentChange of version 2 (465-474): the array is copied, the
\* object at spoutIndex is the one formData already holds, and it is written
handleSpoutCommentChange(spoutIndex, value) ==
    /\ heap' = [heap EXCEPT ![formData.spoutData[spoutIndex + 1]].comments = value]
    /\ formData' = formData

\* the comment field of a spout is edited
HandleSpoutComment(spoutIndex, value) ==
    /\ edits < MaxEdits
    /\ IF version = 2
       THEN handleSpoutCommentChange(spoutIndex, value)
       ELSE handleSpoutDataChange(spoutIndex, "comments", value)
    /\ edits' = edits + 1
    /\ UNCHANGED <<version, urlConfigured, loading, submitStatus, fetch,
                   submits, lastOutcome>>
    /\ UNCHANGED <<storeVars, engineVars>>

\* handleChange (93-99, 436-442, 856-862, 1195-1201): [name]: value
HandleChange(name, value) ==
    /\ edits < MaxEdits
    /\ formData' = [formData EXCEPT ![name] = value]
    /\ edits' = edits + 1
    /\ UNCHANGED <<version, urlConfigured, heap, loading, submitStatus, fetch,
                   submits, lastOutcome>>
    /\ UNCHANGED <<storeVars, engineVars>>

SuccessMessage(ver) ==
    IF ver = 3 THEN "Data successfully submitted to Google Sheets!"
    ELSE "Data submitted successfully!"

\* the message of the catch block; version 2 shows error.message
FailureMessage(ver, outcome) ==
    CASE ver = 1 -> "Submission failed. Please try again."
      [] ver = 2 -> (CASE outcome = "invalid" -> "Operator name is required"
                       [] outcome = "notok"   -> "Submission failed"
                       [] outcome = "badjson" -> "Unexpected end of JSON input"
                       [] OTHER               -> "Failed to fetch")
      [] OTHER   -> "Error submitting data. Please try again."

\* the check of version 2 (501-503): !formData.operatorName.trim()
OperatorNameMissing(data) == Trim(data.operatorName) = ""

\* the checks handleSubmit makes before it calls fetch: "nourl" (version 4,
\* 1228-1234), "invalid" (version 2, 501-503), "send"
SubmitCheck(ver, configured, data) ==
    CASE ver = 4 /\ ~configured               -> "nourl"
      [] ver = 2 /\ OperatorNameMissing(data) -> "invalid"
      [] OTHER                                -> "send"

\* handleSubmit (119-152, 494-538, 886-917, 1225-1267) up to its first
\* await.  The action is a call of the function, with the conditions of the
\* function: the `required` attributes of the inputs and the button's
\* disabled={loading} are conditions of the page, not of handleSubmit, which
\* does not look at loading and, called while an earlier call awaits its
\* request, sends another request.  In version 2 the
\* throw of the check is caught before any await, so setLoading(true) and
\* setLoading(false) fall into one update.
HandleSubmit ==
    /\ submits < MaxSubmits
    /\ submits' = submits + 1
    /\ LET check == SubmitCheck(version, urlConfigured, formData)
       IN  CASE check = "nourl" ->
                  /\ submitStatus' =
                       [success |-> "false",
                        message |-> "Google Sheet URL is not configured. Please check your environment variables."]
                  /\ UNCHANGED <<loading, fetch>>
             [] check = "invalid" ->
                  /\ submitStatus' =
                       [success |-> "false",
                        message |-> FailureMessage(version, "invalid")]
                  /\ loading' = FALSE
                  /\ UNCHANGED fetch
             [] OTHER ->
                  /\ loading' = TRUE
                  /\ submitStatus' = BlankStatus(version)
                  /\ fetch' = [fetch EXCEPT ![submits + 1] =
                                 [state |-> "pending",
                                  body |-> RequestBody(version, FormValue(formData, heap))]]
    /\ UNCHANGED <<version, urlConfigured, heap, formData, edits, lastOutcome>>
    /\ UNCHANGED <<storeVars, engineVars>>

\* How the awaited fetch can end: "ok" a response with a 2xx status, the
\* record stored; "notok" a response with another status, nothing stored;
\* "throw" fetch rejects (no network).
FetchOutcomes == {"ok", "notok", "throw"}

\* How the awaited response.json() of version 2 (520) can end: "ok" the body
\* is JSON; "badjson" it is not, and json() rejects.
JsonOutcomes == {"ok", "badjson"}

\* the outcome takes the handler past its checks to the success branch.
\* Versions 1 and 2 throw on !response.ok; in mode no-cors (3, 4) the
\* response is opaque and is not looked at.
TakesSuccessBranch(ver, outcome) ==
    CASE ver \in {1, 2} -> outcome = "ok"
      [] OTHER          -> outcome \in {"ok", "notok"}

\* the spout objects the form made are dropped with the formData that held them
Collect(hp) ==
    [a \in Addresses |-> IF a <= NUM_SPOUTS THEN hp[a] ELSE INITIAL_SPOUT_DATA]

\* the end of the call k of handleSubmit, from its last await on: the success
\* branch or the catch block, then finally
Finish(k, outcome) ==
    /\ lastOutcome' = outcome
    /\ fetch' = [fetch EXCEPT ![k] = NoFetch]
    /\ loading' = FALSE
    /\ IF TakesSuccessBranch(version, outcome)
       THEN /\ submitStatus' = [success |-> "true", message |-> SuccessMessage(version)]
            /\ formData' = INITIAL_FORM_STATE(version)
            /\ heap' = Collect(heap)
       ELSE /\ submitStatus' = [success |-> "false",
                                message |-> FailureMessage(version, outcome)]
            /\ UNCHANGED <<formData, heap>>

\* The fetch that the call k awaits settles and the handler runs on to its
\* next await or to its end.  In version 2 a response that is ok takes it to
\* `await response.json()` and no state is set yet.
FetchSettle(k, outcome) ==
    /\ fetch[k].state = "pending"
    /\ IF version = 2 /\ outcome = "ok"
       THEN /\ fetch' = [fetch EXCEPT ![k].state = "json"]
            /\ UNCHANGED <<heap, formData, loading, submitStatus, lastOutcome>>
       ELSE Finish(k, outcome)
    /\ UNCHANGED <<version, urlConfigured, edits, submits>>
    /\ UNCHANGED <<storeVars, engineVars>>

\* response.json() that the call k of version 2 awaits settles, and the
\* handler runs on to its end
JsonSettle(k, outcome) ==
    /\ fetch[k].state = "json"
    /\ Finish(k, outcome)
    /\ UNCHANGED <<version, urlConfigured, edits, submits>>
    /\ UNCHANGED <<storeVars, engineVars>>

FormNext ==
    \/ \E i \in SpoutInputs, j \in SampleIndexInputs, v \in SampleInputs :
          HandleWeightChange(i, j, v)
    \/ \E i \in SpoutInputs, v \in CommentInputs : HandleSpoutComment(i, v)
    \/ \E f \in FieldInputs : HandleChange(f[1], f[2])
    \/ HandleSubmit
    \/ \E k \in Submits, outcome \in FetchOutcomes : FetchSettle(k, outcome)
    \/ \E k \in Submits, outcome \in JsonOutcomes : JsonSettle(k, outcome)

(***************************************************************************)
(* The pure functions, called on inputs                                    *)
(***************************************************************************)
\* the strings a sample or a weight can be: empty, numbers with one and two
\* decimals, the bounds of the window and its neighbours, text that is not
\* a number, a number followed by text
StatInputs == {"", "49.4", "50.1", "50", "49.46", "abc"}

WeightInputs ==
    {"", "49.4", "49.5", "50", "50.5", "50.6", "abc", "50.1kg"}

RECURSIVE SeqsUpTo(_, _)
\* the sequences over S of length 0..n
SeqsUpTo(S, n) ==
    IF n = 0 THEN { << >> }
    ELSE LET shorter == SeqsUpTo(S, n - 1)
         IN  shorter \cup {Append(q, x) : q \in shorter, x \in S}

\* the result of a function: none before the call, the returned value after
NotCalled == [called |-> FALSE]

Returned(value) == [called |-> TRUE, value |-> value]

\* no call is made in the behaviours of the endpoint and of the form
EngineIdle ==
    /\ callSamples = << >>
    /\ callWeight = ""
    /\ statsResult = NotCalled
    /\ inRangeResult = NotCalled
    /\ colorResult = NotCalled

\* calculateStats is given the samples of a spout: an array of
\* NUM_SAMPLES_PER_SPOUT entries; shorter arrays are called on as well
EngineInit ==
    /\ version \in Versions
    /\ callSamples \in SeqsUpTo(StatInputs, NUM_SAMPLES_PER_SPOUT)
    /\ callWeight \in WeightInputs
    /\ statsResult = NotCalled
    /\ inRangeResult = NotCalled
    /\ colorResult = NotCalled

\* calculateStats(samples) is called
CallCalculateStats ==
    /\ ~statsResult.called
    /\ statsResult' = Returned(calculateStats(version, callSamples))
    /\ UNCHANGED <<callSamples, callWeight, inRangeResult, colorResult>>
    /\ UNCHANGED <<storeVars, formVars>>

\* isWeightInRange(weight) is called
CallIsWeightInRange ==
    /\ ~inRangeResult.called
    /\ inRangeResult' = Returned(isWeightInRange(version, callWeight))
    /\ UNCHANGED <<callSamples, callWeight, statsResult, colorResult>>
    /\ UNCHANGED <<storeVars, formVars>>

\* getWeightColor(weight) is called
CallGetWeightColor ==
    /\ ~colorResult.called
    /\ colorResult' = Returned(getWeightColor(version, callWeight))
    /\ UNCHANGED <<callSamples, callWeight, statsResult, inRangeResult>>
    /\ UNCHANGED <<storeVars, formVars>>

EngineNext ==
    \/ CallCalculateStats
    \/ CallIsWeightInRange
    \/ CallGetWeightColor

(***************************************************************************)
(* Specifications                                                          *)
(***************************************************************************)
\* the form at rest, for the behaviours of the endpoint
FormIdle ==
    /\ version = 1
    /\ urlConfigured = TRUE
    /\ heap = [a \in Addresses |-> INITIAL_SPOUT_DATA]
    /\ formData = INITIAL_FORM_STATE(1)
    /\ loading = FALSE
    /\ submitStatus = BlankStatus(1)
    /\ fetch = NoFetches
    /\ edits = 0
    /\ submits = 0
    /\ lastOutcome = "none"

\* the endpoint at rest, for the behaviours of the form
StoreIdle ==
    /\ file = Absent
    /\ initialFile = Absent
    /\ req = [r \in Requests |-> IdleRequest]

Init == StoreInit /\ FormIdle /\ EngineIdle

Next == StoreNext

\* the endpoint and its file
Spec == Init /\ [][Next]_vars

FormSpecInit == StoreIdle /\ FormInit /\ EngineIdle

\* the form component
FormSpec == FormSpecInit /\ [][FormNext]_vars

\* the form component, every awaited promise settling at some time: fetch
\* resolves with a response or rejects, response.json() resolves or rejects,
\* and the handler runs on
FormLiveSpec ==
    /\ FormSpecInit
    /\ [][FormNext]_vars
    /\ \A k \in Submits :
          /\ WF_vars(\E outcome \in FetchOutcomes : FetchSettle(k, outcome))
          /\ WF_vars(\E outcome \in JsonOutcomes : JsonSettle(k, outcome))

\* the form at rest in any of its versions, for the calls of its functions
FormAtRest ==
    /\ urlConfigured = TRUE
    /\ heap = [a \in Addresses |-> INITIAL_SPOUT_DATA]
    /\ formData = INITIAL_FORM_STATE(version)
    /\ loading = FALSE
    /\ submitStatus = BlankStatus(version)
    /\ fetch = NoFetches
    /\ edits = 0
    /\ submits = 0
    /\ lastOutcome = "none"

EngineSpecInit == StoreIdle /\ EngineInit /\ FormAtRest

\* calculateStats, isWeightInRange and getWeightColor
EngineSpec == EngineSpecInit /\ [][EngineNext]_vars

(***************************************************************************)
(* Properties of the endpoint (checked under Spec)                         *)
(***************************************************************************)
IsPrefix(s, t) == Len(s) <= Len(t) /\ SubSeq(t, 1, Len(s)) = s

\* the rows of the table after its header row
DataRows(f) ==
    IF f.kind = "book" /\ f.hasSheet /\ Len(f.rows) > 0 THEN Tail(f.rows) ELSE << >>

\* the row a group of a body is to become: the cells in column order
ExpectedRow(body, k) ==
    [i \in 1..Len(ColumnKeys) |-> RowObject(body, k - 1)[ColumnKeys[i]]]

ExpectedRows(body) == [k \in 1..Len(body.groups) |-> ExpectedRow(body, k)]

\* the request is answered in this step
Completes(r) == InFlight(r) /\ req'[r].pc = "done"

\* C1: no lost update.  When all the requests, each with 8 groups, ran
\* concurrently against a path that held no file, were all answered with
\* success and left a readable table, the table holds 8 data rows per
\* request, the rows of every request among them.
C1_NoLostUpdate ==
    ( /\ initialFile = Absent
      /\ file.kind = "book"
      /\ \A r \in Requests :
            /\ req[r].pc = "done"
            /\ req[r].resp = "ok"
            /\ req[r].concurrent
            /\ HasSpoutData(req[r].body) )
    => /\ Len(DataRows(file)) = NUM_SPOUTS * Cardinality(Requests)
       /\ \A r \in Requests : \A k \in 1..NUM_SPOUTS :
             \E i \in 1..Len(DataRows(file)) :
                DataRows(file)[i] = ExpectedRow(req[r].body, k)

\* C2: mutual exclusion per path.  At most one request is between the start
\* of its read and the end of its write.
C2_MutualExclusion ==
    \A r1, r2 \in Requests : (InFlight(r1) /\ InFlight(r2)) => r1 = r2

\* C3: append-only.  When a request is answered, whatever the answer, the
\* data rows the table held when the request arrived are still the first
\* data rows of the table, in the same order.
C3_AppendOnly ==
    [][ \A r \in Requests :
          Completes(r) => IsPrefix(DataRows(req[r].before), DataRows(file')) ]_vars

\* C4: round trip of sequential appends.  On a path that held no file at
\* first, a request with 8 groups that runs alone, reads without an I/O error
\* and is answered with success leaves the table it found (the header alone
\* when there was no file) followed by its 8 rows: header + 8 rows after the
\* first call, header + 16 after the second, the first 8 unchanged.
C4_RoundTrip ==
    [][ \A r \in Requests :
          ( /\ initialFile = Absent
            /\ req[r].pc = "written"
            /\ ~req[r].concurrent
            /\ HasSpoutData(req[r].body)
            /\ req[r].readOutcome \in {"enoent", "loaded"}
            /\ req[r].before.kind \in {"absent", "book"}
            /\ req'[r].resp = "ok" )
          => file' = Book((IF req[r].before.kind = "absent"
                           THEN << HeaderRow >>
                           ELSE req[r].before.rows)
                          \o ExpectedRows(req[r].body)) ]_vars

\* C5: atomic replace.  A path that did not hold a half-written file at
\* first never holds one, whatever the point at which a write fails or the
\* process dies.
C5_AtomicReplace ==
    initialFile.kind # "partial" => file.kind # "partial"

\* C6: schema mismatch.  A request that runs alone and reads a worksheet
\* whose first row is not the canonical header is answered with an error,
\* never with success.
C6_SchemaMismatch ==
    [][ \A r \in Requests :
          ( /\ Completes(r)
            /\ ~req[r].concurrent
            /\ req'[r].readOutcome = "loaded"
            /\ req[r].before.hasSheet
            /\ req[r].before.rows[1] # HeaderRow )
          => req'[r].resp = "500" ]_vars

\* C10: no internal retry.  A request calls writeFile at most once, and a
\* request whose read failed with an I/O error is answered with an error.
C10_NoRetry ==
    \A r \in Requests :
       /\ req[r].writes <= 1
       /\ (req[r].pc = "done" /\ req[r].readOutcome = "ioerror")
             => req[r].resp = "500"

\* the rows the table holds after the rows it held before (after the header
\* row when there was no table before)
AppendedRows(before, after) ==
    LET base == IF before.kind = "book" /\ before.hasSheet
                THEN Len(before.rows) ELSE 1
    IN  IF after.kind = "book" /\ Len(after.rows) > base
        THEN SubSeq(after.rows, base + 1, Len(after.rows))
        ELSE << >>

\* date, time, operator, shift, group label and the samples of a row
FlatCells(row) == SubSeq(row, 1, 5 + NUM_SAMPLES_PER_SPOUT)

\* C11: flattening.  A request that runs alone and is answered with success
\* has appended one row per group of its body, in the order of the groups;
\* the k-th appended row holds the date, time, operator name and shift of the
\* body, the label of group k (counted from 1) and the samples of group k in
\* their order.
C11_Flattening ==
    [][ \A r \in Requests :
          ( /\ Completes(r)
            /\ ~req[r].concurrent
            /\ req'[r].readOutcome \in {"enoent", "loaded"}
            /\ req'[r].resp = "ok" )
          => LET appended == AppendedRows(req[r].before, file')
                 groups == req[r].body.groups
             IN  /\ Len(appended) = Len(groups)
                 /\ \A k \in 1..Len(groups) :
                       /\ Len(appended[k]) >= 5 + NUM_SAMPLES_PER_SPOUT
                       /\ FlatCells(appended[k]) =
                             << req[r].body.date, req[r].body.time,
                                req[r].body.operatorName, req[r].body.shift,
                                SpoutLabels[k], groups[k].samples[1],
                                groups[k].samples[2], groups[k].samples[3] >> ]_vars

\* the PersistedRow of group k of a body: date, time, operatorName, shift,
\* groupLabel, sample_1..sample_N, average, standardDeviation, comment
PersistedRow(body, k) ==
    << body.date, body.time, body.operatorName, body.shift, SpoutLabels[k],
       body.groups[k].samples[1], body.groups[k].samples[2],
       body.groups[k].samples[3], body.groups[k].average,
       body.groups[k].stdDev, body.groups[k].comments >>

\* C12: persisted schema.  The rows that a request wrote into a table it
\* made itself (no table was read) are the PersistedRows of the groups of its
\* body: every field is there, the standard deviation and the comment among
\* them, with the value the group has.
C12_PersistedSchema ==
    [][ \A r \in Requests :
          ( /\ Completes(r)
            /\ ~req[r].concurrent
            /\ req'[r].readOutcome = "enoent"
            /\ req'[r].resp = "ok" )
          => /\ Len(DataRows(file')) = Len(req[r].body.groups)
             /\ \A k \in 1..Len(req[r].body.groups) :
                   DataRows(file')[k] = PersistedRow(req[r].body, k) ]_vars

\* the number of header rows among the rows
HeaderRowCount(rows) == Cardinality({i \in 1..Len(rows) : rows[i] = HeaderRow})

\* the path held no table, or a table with the canonical header, at first
CanonicalAtFirst ==
    (initialFile.kind = "book" /\ initialFile.hasSheet)
       => /\ initialFile.rows[1] = HeaderRow
          /\ HeaderRowCount(initialFile.rows) = 1

\* the path holds a table that can be read
HoldsTable(f) == f.kind = "book" /\ f.hasSheet

\* the request took the catch branch: addWorksheet and sheet.columns
Bootstrapped(r) == req[r].readOutcome \in {"enoent", "corrupt", "ioerror"}

\* C23: schema bootstrap at most once per file.  A request makes the
\* worksheet and defines the columns only when its read found no readable
\* table at the path; no two requests that both found no file have both
\* written the table they made; a table at the path has one header row, its
\* first row; a request that read a table has defined no columns on it and
\* has added no header row.
C23_BootstrapOnce ==
    /\ [][ \A r \in Requests :
             (~Bootstrapped(r) /\ req'[r].readOutcome # req[r].readOutcome
                 /\ req'[r].readOutcome # "loaded")
                => ~HoldsTable(req[r].seen[1]) ]_vars
    /\ [] ( /\ \A r1, r2 \in Requests :
                  ( /\ req[r1].readOutcome = "enoent" /\ WroteWell(r1)
                    /\ req[r2].readOutcome = "enoent" /\ WroteWell(r2) )
                  => r1 = r2
            /\ CanonicalAtFirst =>
                  /\ HoldsTable(file)
                        => /\ Len(file.rows) >= 1
                           /\ file.rows[1] = HeaderRow
                           /\ HeaderRowCount(file.rows) = 1
                  /\ \A r \in Requests :
                        (req[r].readOutcome = "loaded" /\ req[r].sheet.exists)
                           => /\ req[r].sheet.keys = << >>
                              /\ HeaderRowCount(req[r].sheet.rows) = 1 )

\* C25: acknowledgement ordering.  A request is answered with success only
\* after its own stream of the workbook has ended well, and the stream of a
\* request that wrote alone ends well with the whole table of the request in
\* the file; a request that ends otherwise (the forEach threw, the file could
\* not be opened, the stream failed) is answered with status 500, never with
\* success; an answer, once given, is never replaced by another.
C25_AckOrdering ==
    [][ \A r \in Requests :
          /\ (req[r].resp # "ok" /\ req'[r].resp = "ok")
                => /\ req[r].pc = "written"
                   /\ req[r].writeEnd = "well"
                   /\ req[r].writes = 1
                   /\ req'[r].pc = "done"
          /\ (req[r].writeEnd # "well" /\ req'[r].writeEnd = "well")
                => /\ Streaming(r)
                   /\ req[r].overlapped = {}
                         => file' = Book(WrittenRows(req[r].sheet))
          /\ (Completes(r) /\ req[r].writeEnd # "well") => req'[r].resp = "500"
          /\ Completes(r) => req'[r].resp \in {"ok", "500"}
          /\ req[r].resp # "none" => req'[r].resp = req[r].resp ]_vars

\* one request was answered with success after its stream had ended well,
\* another with status 500 after its stream had failed
C25_Witness ==
    \E r1, r2 \in Requests :
       /\ req[r1].pc = "done" /\ req[r1].resp = "ok"
       /\ req[r1].writeEnd = "well"
       /\ req[r2].pc = "done" /\ req[r2].resp = "500"
       /\ req[r2].writeEnd = "failed"

\* C27: a body without spoutData.  The request is answered with status 500
\* and has not written: it never opens the file, and the step that answers
\* it leaves the file as it is.
C27_NoSpoutData ==
    [][ \A r \in Requests :
          (req[r].pc # "idle" /\ req[r].body.groupsKey # "spoutData")
             => /\ req'[r].pc \in {"read", "done", "crashed"}
                /\ req'[r].writes = 0
                /\ Completes(r) => (req'[r].resp = "500" /\ file' = file) ]_vars

\* a request whose groups came under the key `spouts` was answered with
\* status 500 after the worksheet was made or read in memory
C27_Witness ==
    \E r \in Requests :
       /\ req[r].body.groupsKey = "spouts"
       /\ req[r].pc = "done"
       /\ req[r].resp = "500"
       /\ req[r].sheet.exists

(***************************************************************************)
(* Properties of the form (checked under FormSpec)                         *)
(***************************************************************************)
\* the zero value of average and stdDev
IsZeroValue(x) == ~x.nan /\ x.n = 0

\* the empty ShiftRecord
IsEmptyRecord(data) ==
    /\ data.operatorName = ""
    /\ data.shift = ""
    /\ data.generalComments = ""
    /\ \A i \in 1..NUM_SPOUTS :
          /\ \A j \in 1..NUM_SAMPLES_PER_SPOUT : data.spoutData[i].samples[j] = ""
          /\ data.spoutData[i].comments = ""
          /\ IsZeroValue(data.spoutData[i].average)
          /\ IsZeroValue(data.spoutData[i].stdDev)

\* C7: validation before persistence.  No request is ever sent for a record
\* whose operatorName is empty or only whitespace.
C7_ValidationFirst ==
    \A k \in Submits :
       Awaiting(k) => Trim(BodyOperatorName(version, fetch[k].body)) # ""

\* C8: failure keeps the record.  When the awaited request throws or is
\* answered with a non-success response, the record after the submit is the
\* record before it.
C8_FailureKeepsRecord ==
    [][ \A k \in Submits :
          ( /\ Awaiting(k)
            /\ fetch'[k].state = "none"
            /\ lastOutcome' \in {"notok", "throw"} )
          => FormValue(formData', heap') = FormValue(formData, heap) ]_vars

\* C9: reset to empty after success.  When a submit ends with success the
\* record is the empty record.
C9_ResetToEmpty ==
    [][ \A k \in Submits :
          ( /\ Awaiting(k)
            /\ fetch'[k].state = "none"
            /\ submitStatus'.success = "true" )
          => IsEmptyRecord(FormValue(formData', heap')) ]_vars

Pow10(d) ==
    CASE d = 0 -> 1 [] d = 1 -> 10 [] d = 2 -> 100 [] OTHER -> 1000

\* two values of average / stdDev are the same number (0 and '0.0' are)
SameNumber(x, y) ==
    /\ x.nan = y.nan
    /\ ~x.nan => x.n * Pow10(y.d) = y.n * Pow10(x.d)

\* C13: derived fields are never stale.  In every state of the form, the
\* average and the standard deviation of each group are the numbers that
\* calculateStats gives for the samples the group holds now; comment edits,
\* header edits, submits and resets leave no group with other values.
C13_DerivedFresh ==
    \A i \in 1..NUM_SPOUTS :
       LET spout == heap[formData.spoutData[i]]
           fresh == calculateStats(version, spout.samples)
       IN  /\ SameNumber(spout.average, fresh.average)
           /\ SameNumber(spout.stdDev, fresh.stdDev)

\* a group holds a sample, an average that is not zero, and a comment typed
\* before or after the sample
C13_Witness ==
    \E i \in 1..NUM_SPOUTS :
       LET spout == heap[formData.spoutData[i]]
       IN  /\ \E j \in 1..NUM_SAMPLES_PER_SPOUT : spout.samples[j] # ""
           /\ spout.comments # ""
           /\ ~IsZeroValue(spout.average)

\* C21: updateSample is idempotent.  For every group the form holds, every
\* sample index and every value, replacing the sample and recomputing a
\* second time, with the same index and value, gives the group the first
\* time gave: samples, average, standard deviation and comment.
C21_Idempotent ==
    \A i \in 1..NUM_SPOUTS :
       \A j \in 0..(NUM_SAMPLES_PER_SPOUT - 1) : \A v \in SampleInputs :
          LET once == updateSample(version, heap[formData.spoutData[i]], j, v)
          IN  updateSample(version, once, j, v) = once

\* a group that updateSample made: it holds two different samples
C21_Witness ==
    \E i \in 1..NUM_SPOUTS :
       LET spout == heap[formData.spoutData[i]]
       IN  /\ \E j, k \in 1..NUM_SAMPLES_PER_SPOUT :
                 /\ spout.samples[j] # ""
                 /\ spout.samples[k] # ""
                 /\ spout.samples[j] # spout.samples[k]
           /\ ~IsZeroValue(spout.stdDev)

\* the ShiftRecord the form holds: the header fields and the groups
RecordOf(data, hp) ==
    [operatorName |-> data.operatorName,
     shift |-> data.shift,
     date |-> data.date,
     time |-> data.time,
     generalComments |-> data.generalComments,
     groups |-> [i \in 1..NUM_SPOUTS |->
        [samples |-> hp[data.spoutData[i]].samples,
         average |-> hp[data.spoutData[i]].average,
         stdDev |-> hp[data.spoutData[i]].stdDev,
         comments |-> hp[data.spoutData[i]].comments]]]

\* the ShiftRecord a request body carries, read back from the body
BodyRecord(ver, body) ==
    CASE ver \in {1, 2} ->
           LET head == IF ver = 1 THEN body ELSE body.metadata
           IN  [operatorName |-> head.operatorName,
                shift |-> head.shift,
                date |-> head.date,
                time |-> head.time,
                generalComments |-> head.generalComments,
                groups |-> [i \in 1..Len(body.spouts) |->
                   [samples |-> body.spouts[i].samples,
                    average |-> body.spouts[i].average,
                    stdDev |-> body.spouts[i].stdDev,
                    comments |-> body.spouts[i].comments]]]
      [] ver = 3 ->
           [operatorName |-> body[1].operatorName,
            shift |-> body[1].shift,
            date |-> body[1].date,
            time |-> body[1].time,
            generalComments |-> body[1].generalComments,
            groups |-> [i \in 1..Len(body) |->
               [samples |-> << body[i].sample1, body[i].sample2, body[i].sample3 >>,
                average |-> body[i].average,
                stdDev |-> body[i].stdDev,
                comments |-> body[i].spoutComments]]]
      [] OTHER ->
           [operatorName |-> body.data[1][2],
            shift |-> body.data[1][3],
            date |-> body.data[1][4],
            time |-> body.data[1][5],
            generalComments |-> body.data[1][13],
            groups |-> [i \in 1..Len(body.data) |->
               [samples |-> << body.data[i][7], body.data[i][8], body.data[i][9] >>,
                average |-> body.data[i][10],
                stdDev |-> body.data[i][11],
                comments |-> body.data[i][12]]]]

\* C22: immutable snapshot.  The record a request carries is the record the
\* form held when the submit started, and while the request is in flight no
\* edit of a sample, a comment or a header field changes what it carries.
C22_Snapshot ==
    [][ \A k \in Submits :
          /\ (~Awaiting(k) /\ fetch'[k].state = "pending")
                => BodyRecord(version, fetch'[k].body) = RecordOf(formData, heap)
          /\ (Awaiting(k) /\ fetch'[k].state # "none")
                => fetch'[k].body = fetch[k].body ]_vars

\* a request is in flight and the form was edited since the submit
C22_Witness ==
    \E k \in Submits :
       /\ Awaiting(k)
       /\ BodyRecord(version, fetch[k].body) # RecordOf(formData, heap)

\* C24: frame of updateSample.  A change of sample j of group i changes
\* that sample and the average and standard deviation of group i only: the
\* other samples and the comment of group i, every other group and the
\* header fields and general comments stay as they were.
C24_Frame ==
    [][ \A i \in SpoutInputs, j \in SampleIndexInputs, v \in SampleInputs :
          HandleWeightChange(i, j, v)
          => LET old == RecordOf(formData, heap)
                 new == RecordOf(formData', heap')
             IN  /\ new.operatorName = old.operatorName
                 /\ new.shift = old.shift
                 /\ new.date = old.date
                 /\ new.time = old.time
                 /\ new.generalComments = old.generalComments
                 /\ \A k \in 1..NUM_SPOUTS :
                       k # i + 1 => new.groups[k] = old.groups[k]
                 /\ new.groups[i + 1].comments = old.groups[i + 1].comments
                 /\ new.groups[i + 1].samples[j + 1] = v
                 /\ \A m \in 1..NUM_SAMPLES_PER_SPOUT :
                       m # j + 1 => new.groups[i + 1].samples[m]
                                      = old.groups[i + 1].samples[m] ]_vars

\* a sample was typed into a group that had a comment, another group has a
\* comment too or a header field is filled
C24_Witness ==
    /\ edits >= 2
    /\ \E i \in 1..NUM_SPOUTS :
          LET spout == heap[formData.spoutData[i]]
          IN  /\ formData.spoutData[i] = OwnRef(i)
              /\ spout.comments # ""
              /\ \E j \in 1..NUM_SAMPLES_PER_SPOUT : spout.samples[j] # ""

\* C26: every submit ends its loading state.  Whenever loading is true it
\* becomes false again, and when it does the status carries a message that
\* is not empty and says success only when the request succeeded.
C26_LoadingEnds ==
    /\ loading ~> ~loading
    /\ [][ (loading /\ ~loading')
             => /\ submitStatus'.message # ""
                /\ submitStatus'.success = "true" => lastOutcome' = "ok" ]_vars

(***************************************************************************)
(* Properties of the pure functions (checked under EngineSpec)             *)
(***************************************************************************)
Abs(x) == IF x >= 0 THEN x ELSE 0 - x

\* every entry of the sequence is empty or a number
AllParse(samples) == \A i \in 1..Len(samples) : samples[i] \in DOMAIN NumberTable

\* the present samples, in hundredths
PresentValues(samples) ==
    LET kept == SelectSeq(samples, LAMBDA x : x # "" /\ x \in DOMAIN NumberTable)
    IN  [i \in 1..Len(kept) |-> NumberTable[kept[i]]]

\* the sum of the present samples
PresentSum(samples) == SumSeq(PresentValues(samples))

\* count^2 times the sum of the squared deviations from the mean: the sum
\* of (count * x - sum)^2 over the present samples x
ScaledSquares(samples) ==
    LET xs == PresentValues(samples)
    IN  SumSeq([i \in 1..Len(xs) |->
                  (Len(xs) * xs[i] - PresentSum(samples))
                * (Len(xs) * xs[i] - PresentSum(samples))])

\* the decimals calculateStats keeps: toFixed(1) in versions 1 and 2,
\* toFixed(2) and toFixed(3) in versions 3 and 4
AverageDigits(ver) == IF ver \in {1, 2} THEN 1 ELSE 2

DeviationDigits(ver) == IF ver \in {1, 2} THEN 1 ELSE 3

\* a value in units of 10^-k
InUnits(x, k) == x.n * Pow10(k - x.d)

\* x is exactly the square root of Q / count^3 (hundredths)
ExactRoot(x, count, Q) ==
    LET c == count * count * count
    IN  CASE x.d = 0 -> x.n * x.n * c * 10000 = Q
          [] x.d = 1 -> x.n * x.n * c * 100 = Q
          [] x.d = 2 -> x.n * x.n * c = Q
          [] OTHER   -> x.n * x.n * c = 100 * Q

\* x, of k decimals, is within half a unit of num / den (hundredths)
NearQuotient(x, k, num, den) ==
    2 * Abs(InUnits(x, k) * den * Pow10(2 - k) - num) <= den * Pow10(2 - k)

\* x, of k decimals (1 or 3), is within half a unit of the square root of
\* Q / count^3 (hundredths)
NearRoot(x, k, count, Q) ==
    LET c == count * count * count
        m == InUnits(x, k)
        a == IF k = 1 THEN 100 * c ELSE c
        b == IF k = 1 THEN Q ELSE 100 * Q
    IN  /\ (m = 0 \/ (2 * m - 1) * (2 * m - 1) * a <= 4 * b)
        /\ (2 * m + 1) * (2 * m + 1) * a >= 4 * b

\* the call of calculateStats was given numbers only, one at least
CalledOnNumbers ==
    /\ statsResult.called
    /\ AllParse(callSamples)
    /\ Len(PresentValues(callSamples)) > 0

\* C14 as stated: the result is the arithmetic mean of the present samples
\* and their population standard deviation, absent samples left out of the
\* sum and of the count.
C14_MeanAndDeviation ==
    CalledOnNumbers =>
       LET count == Len(PresentValues(callSamples))
           result == statsResult.value
       IN  /\ ~result.average.nan
           /\ ~result.stdDev.nan
           /\ result.average.n * 100 * count
                 = PresentSum(callSamples) * Pow10(result.average.d)
           /\ ExactRoot(result.stdDev, count, ScaledSquares(callSamples))

\* C14 amended: the result is the arithmetic mean of the present samples and
\* their population standard deviation (the squared deviations divided by
\* the count of present samples), each rounded to the decimals the version
\* keeps (1 and 1 in versions 1 and 2, 2 and 3 in versions 3 and 4); absent
\* samples count neither in the sum nor in the count.
C14_RoundedMeanAndDeviation ==
    CalledOnNumbers =>
       LET count == Len(PresentValues(callSamples))
           result == statsResult.value
       IN  /\ ~result.average.nan
           /\ ~result.stdDev.nan
           /\ NearQuotient(result.average, AverageDigits(version),
                           PresentSum(callSamples), count)
           /\ NearRoot(result.stdDev, DeviationDigits(version), count,
                       ScaledSquares(callSamples))

\* calculateStats was called on an absent sample and two different numbers
C14_Witness ==
    /\ CalledOnNumbers
    /\ Len(callSamples) = 3
    /\ \E i \in 1..3 : callSamples[i] = ""
    /\ \E i, j \in 1..3 :
          /\ callSamples[i] # "" /\ callSamples[j] # ""
          /\ callSamples[i] # callSamples[j]
    /\ ~IsZeroValue(statsResult.value.stdDev)

\* no entry of the sequence is a sample: it is empty, or all are absent
NoSamplePresent(samples) == \A i \in 1..Len(samples) : samples[i] = ""

\* C15: calculateStats on a sequence of length 0..N without a present
\* sample returns average 0 and standard deviation 0.
C15_ZeroWithoutSamples ==
    (statsResult.called /\ NoSamplePresent(callSamples))
       => /\ IsZeroValue(statsResult.value.average)
          /\ IsZeroValue(statsResult.value.stdDev)

\* calculateStats was called on a sequence of absent samples only
C15_Witness ==
    /\ statsResult.called
    /\ Len(callSamples) >= NUM_SAMPLES_PER_SPOUT
    /\ NoSamplePresent(callSamples)

\* all present samples are the number v (in hundredths), one at least
AllEqualTo(samples, v) ==
    /\ AllParse(samples)
    /\ Len(PresentValues(samples)) > 0
    /\ \A i \in 1..Len(PresentValues(samples)) : PresentValues(samples)[i] = v

\* the values a sample of the model can have, in hundredths
SampleValues == {NumberTable[x] : x \in StatInputs \cap DOMAIN NumberTable}

\* C16 as stated: when all present samples are equal to v, the result is
\* average v and standard deviation 0.
C16_EqualSamples ==
    \A v \in SampleValues :
       (statsResult.called /\ AllEqualTo(callSamples, v))
          => /\ ~statsResult.value.average.nan
             /\ InUnits(statsResult.value.average, 2) = v
             /\ IsZeroValue(statsResult.value.stdDev)

\* C16 amended: when all present samples are equal to v, the result is v
\* rounded to the decimals the version keeps for the average (1 in versions
\* 1 and 2, 2 in versions 3 and 4), so v itself when v has no more decimals
\* than that, and standard deviation 0.
C16_EqualSamplesRounded ==
    \A v \in SampleValues :
       (statsResult.called /\ AllEqualTo(callSamples, v))
          => /\ ~statsResult.value.average.nan
             /\ NearQuotient(statsResult.value.average,
                             AverageDigits(version), v, 1)
             /\ (v % Pow10(2 - AverageDigits(version)) = 0
                   => InUnits(statsResult.value.average, 2) = v)
             /\ IsZeroValue(statsResult.value.stdDev)

\* calculateStats of version 1 was called on two or more samples 49.46
C16_Witness ==
    /\ statsResult.called
    /\ version = 1
    /\ Len(callSamples) >= 2
    /\ \A i \in 1..Len(callSamples) : callSamples[i] = "49.46"

\* the sequence with the entries that are not numbers replaced by absent ones
WithoutMalformed(samples) ==
    [i \in 1..Len(samples) |->
        IF samples[i] \in DOMAIN NumberTable THEN samples[i] ELSE ""]

\* C17: malformed input counts as absent.  The result for a sequence that
\* holds strings that are not numbers is the result for the sequence with
\* those entries absent; it is never NaN.
C17_MalformedIsAbsent ==
    (statsResult.called /\ ~AllParse(callSamples))
       => /\ ~statsResult.value.average.nan
          /\ ~statsResult.value.stdDev.nan
          /\ statsResult.value
                = calculateStats(version, WithoutMalformed(callSamples))

\* the weight is a number: not empty, not blank, and Number gives no NaN
IsNumberText(weight) == weight \notin {"", " "} /\ ~Number(weight).nan

\* C18: the bounds of the window are inclusive.  For a weight that is a
\* number, isWeightInRange is true when the weight is the target minus the
\* tolerance, the target plus the tolerance or a number between them, and
\* false when it is below the one or above the other.
C18_InclusiveBounds ==
    (inRangeResult.called /\ IsNumberText(callWeight))
       => inRangeResult.value
            = ( /\ NumberTable[callWeight] >= TARGET_WEIGHT - TOLERANCE
                /\ NumberTable[callWeight] <= TARGET_WEIGHT + TOLERANCE )

\* isWeightInRange was called on the lower bound of the window and said yes
C18_Witness ==
    /\ inRangeResult.called
    /\ callWeight = "49.5"
    /\ NumberTable[callWeight] = TARGET_WEIGHT - TOLERANCE
    /\ inRangeResult.value = TRUE

\* the weight is text in which no number can be read
IsMalformedText(weight) == Number(weight).nan /\ parseFloat(weight).nan

\* C19: three states.  A weight that is empty or is not a number is neither
\* in range nor out of range: isWeightInRange is false for it and
\* getWeightColor gives the neutral answer (no class), never the class of a
\* weight out of range.
C19_ThreeStates ==
    (callWeight = "" \/ IsMalformedText(callWeight))
       => /\ inRangeResult.called => inRangeResult.value = FALSE
          /\ colorResult.called
                => /\ colorResult.value = ""
                   /\ colorResult.value # RedClass(version)

====
